---- MODULE Spec2Model ----
(***************************************************************************)
(* LuPulse backend (src/index.js): the Express routes over the MongoDB     *)
(* collections Users, Notices and Events, with the cookie-carried JWT      *)
(* session (verifyToken / verifyAdmin / verifySuperAdmin).                 *)
(*                                                                         *)
(* A request is processed as a chain of callbacks that suspend only at     *)
(* storage operations.  One action of this model is one storage operation  *)
(* of one request together with the synchronous code that runs up to the   *)
(* request's next storage operation (or its response), so that requests    *)
(* interleave exactly at the awaits of the code.                           *)
(*                                                                         *)
(* Storage operations are taken to succeed (no driver exception).  The     *)
(* fields createdAt / updatedAt are never read by the code and are left    *)
(* out of the records.  NULL stands for JavaScript undefined / null and    *)
(* for a field a stored document does not have.                            *)
(***************************************************************************)
EXTENDS Integers, Sequences, FiniteSets, TLC

VARIABLES
    users,      \* userCollection: documents in natural (insertion) order
    notices,    \* noticeCollection
    events,     \* eventsCollection
    jar,        \* each client's cookie named token, as the responses set it
    now,        \* the clock jwt.sign / jwt.verify read
    nextId,     \* source of fresh ObjectIds
    reqs        \* each client's request in flight, or the response to its last one

vars == <<users, notices, events, jar, now, nextId, reqs>>

NULL == "null"

----------------------------------------------------------------------------
(* Bounds of the model *)

MaxUsers == 3       \* documents in Users
MaxDocs == 1        \* Notices / Events inserted over a run
MaxClock == 3       \* clock ticks over a run

(* jwt.sign(..., { expiresIn: "1h" }), in clock ticks of 30 minutes *)
TokenTTL == 2

(* The clients: each has a cookie jar and one request at a time *)
Clients == {"c1", "c2"}

Roles == {"user", "admin", "superadmin"}

----------------------------------------------------------------------------
(* Collections *)

Range(seq) == {seq[i] : i \in 1..Len(seq)}

(* Index of the first document of coll that belongs to the set matching,   *)
(* 0 when there is none: what findOne / updateOne / deleteOne act on.      *)
FirstIdx(coll, matching) ==
    IF \E i \in 1..Len(coll) : coll[i] \in matching
    THEN CHOOSE i \in 1..Len(coll) :
            /\ coll[i] \in matching
            /\ \A j \in 1..(i - 1) : coll[j] \notin matching
    ELSE 0

RemoveAt(coll, i) == [j \in 1..(Len(coll) - 1) |-> IF j < i THEN coll[j] ELSE coll[j + 1]]

(* { email } as a query: exact equality on the email field *)
ByEmail(coll, email) == {d \in Range(coll) : d.email = email}

(* The characters of the email strings the model uses *)
Chars(email) ==
    CASE email = "root@lu" -> <<"r", "o", "o", "t", "@", "l", "u">>
      [] email = "old@lu"  -> <<"o", "l", "d", "@", "l", "u">>
      [] email = "OLD@lu"  -> <<"O", "L", "D", "@", "l", "u">>
      [] email = "o.d@lu"  -> <<"o", ".", "d", "@", "l", "u">>
      [] OTHER -> <<>>

(* Case folding of the "i" flag *)
ToLowerCase(ch) ==
    CASE ch = "O" -> "o"
      [] ch = "L" -> "l"
      [] ch = "D" -> "d"
      [] OTHER -> ch

(* new RegExp(`^${email}$`, "i").test(subject): the parameter is not       *)
(* escaped, so "." in it stands for any character; every other character   *)
(* of these emails stands for itself, in either case.                      *)
RegExpTest(email, subject) ==
    LET p == Chars(email)
        t == Chars(subject)
    IN  /\ Len(p) = Len(t)
        /\ \A k \in 1..Len(p) : p[k] = "." \/ ToLowerCase(p[k]) = ToLowerCase(t[k])

(* { email: { $regex: new RegExp(`^${email}$`, "i") } } *)
ByEmailPattern(coll, email) == {d \in Range(coll) : RegExpTest(email, d.email)}

(* { _id: new ObjectId(id) } *)
ById(coll, id) == {d \in Range(coll) : d.id = id}

(* JavaScript truthiness of the values the model uses *)
Truthy(v) == v # NULL /\ v # ""

----------------------------------------------------------------------------
(* Credentials *)

NoCookie == [present |-> FALSE, signed |-> FALSE, email |-> NULL,
             adminRole |-> NULL, department |-> NULL, exp |-> 0]

(* A cookie whose token was not signed with JWT_SECRET (or is malformed) *)
ForgedCookie == [present |-> TRUE, signed |-> FALSE, email |-> "root@lu",
                 adminRole |-> "superadmin", department |-> NULL, exp |-> 0]

(* jwt.sign of the claims of POST /login *)
JwtSign(user) ==
    [present |-> TRUE, signed |-> TRUE, email |-> user.email,
     adminRole |-> user.adminRole, department |-> user.department,
     exp |-> now + TokenTTL]

(* Mutant: jwt.verify with ignoreExpiration *)
JwtVerifyIgnoringExpiry(token) == token.signed

(* jwt.verify: signature, then expiry (now >= exp is expired) *)
JwtVerify(token) == token.signed /\ now < token.exp

(* What client c may send as its token cookie: the one the server set,    *)
(* none, or one of its own making                                          *)
Cookies(c) == {jar[c], NoCookie, ForgedCookie}

----------------------------------------------------------------------------
(* Middleware *)

NoUser == [email |-> NULL, adminRole |-> NULL, department |-> NULL]

(* Mutant: the role is copied without the "user" default *)
ReqUserNoDefault(user) ==
    [email |-> user.email, adminRole |-> user.adminRole, department |-> user.department]

(* req.user as verifyToken builds it: no userType *)
ReqUser(user) ==
    [email |-> user.email,
     adminRole |-> IF Truthy(user.adminRole) THEN user.adminRole ELSE "user",
     department |-> user.department]

(* Mutant: req.user taken from the decoded token (as src/unnamed/part_000 did) *)
VerifyTokenTrustingClaims(cookie) ==
    IF ~cookie.present THEN [status |-> 401, user |-> NoUser]
    ELSE IF ~JwtVerify(cookie) THEN [status |-> 403, user |-> NoUser]
    ELSE LET i == FirstIdx(users, ByEmail(users, cookie.email))
         IN  IF i = 0 THEN [status |-> 404, user |-> NoUser]
             ELSE [status |-> 0,
                   user |-> [email |-> cookie.email,
                             adminRole |-> IF Truthy(cookie.adminRole)
                                           THEN cookie.adminRole ELSE "user",
                             department |-> cookie.department]]

(* Mutant: a token whose account is gone is answered like a missing cookie *)
VerifyTokenMissing401(cookie) ==
    IF ~cookie.present THEN [status |-> 401, user |-> NoUser]
    ELSE IF ~JwtVerify(cookie) THEN [status |-> 403, user |-> NoUser]
    ELSE LET i == FirstIdx(users, ByEmail(users, cookie.email))
         IN  IF i = 0 THEN [status |-> 401, user |-> NoUser]
             ELSE [status |-> 0, user |-> ReqUser(users[i])]

(* Mutant: the account is looked up as GET /users/:email looks it up *)
VerifyTokenPatternLookup(cookie) ==
    IF ~cookie.present THEN [status |-> 401, user |-> NoUser]
    ELSE IF ~JwtVerify(cookie) THEN [status |-> 403, user |-> NoUser]
    ELSE LET i == FirstIdx(users, ByEmailPattern(users, cookie.email))
         IN  IF i = 0 THEN [status |-> 404, user |-> NoUser]
             ELSE [status |-> 0, user |-> ReqUser(users[i])]

(* verifyToken: status 0 is next() *)
VerifyToken(cookie) ==
    IF ~cookie.present THEN [status |-> 401, user |-> NoUser]
    ELSE IF ~JwtVerify(cookie) THEN [status |-> 403, user |-> NoUser]
    ELSE LET i == FirstIdx(users, ByEmail(users, cookie.email))
         IN  IF i = 0 THEN [status |-> 404, user |-> NoUser]
             ELSE [status |-> 0, user |-> ReqUser(users[i])]

(* Mutant: any authenticated caller passes *)
VerifyAdminAnyUser(user) == ~(user.email = NULL)

VerifyAdmin(user) ==
    ~(user.email = NULL \/ (user.adminRole # "admin" /\ user.adminRole # "superadmin"))

VerifySuperAdmin(user) ==
    ~(user.email = NULL \/ user.adminRole # "superadmin")

(* The middleware each route is registered with, after verifyToken *)
Gate(kind) ==
    CASE kind \in {"promote", "demote"} -> "superadmin"
      [] kind \in {"deleteUser", "postNotice", "putNotice", "deleteNotice",
                   "postEvent", "putEvent", "deleteEvent"} -> "admin"
      [] OTHER -> "none"

----------------------------------------------------------------------------
(* Requests *)

NoBody == [none |-> TRUE]

IdleReq == [pc |-> "idle", kind |-> NULL, cookie |-> NoCookie, param |-> NULL,
            body |-> NoBody, user |-> NoUser, status |-> 0, result |-> <<>>]

Free(s) == reqs[s].pc \in {"idle", "done"}

(* res.status(st).json(...): the request is over *)
Finish(r, st) == [r EXCEPT !.pc = "done", !.status = st, !.body = NoBody]

FinishWith(r, st, docs) == [Finish(r, st) EXCEPT !.result = docs]

(* A protected request after verifyToken and the route's gate: either      *)
(* answered, or at pc "run" with req.user set.                             *)
Admit(kind, cookie, param, body) ==
    LET vt == VerifyToken(cookie)
        r  == [pc |-> "run", kind |-> kind, cookie |-> cookie, param |-> param,
               body |-> body, user |-> vt.user, status |-> 0, result |-> <<>>]
    IN  IF vt.status # 0 THEN Finish(r, vt.status)
        ELSE IF Gate(kind) = "admin" /\ ~VerifyAdmin(vt.user) THEN Finish(r, 403)
        ELSE IF Gate(kind) = "superadmin" /\ ~VerifySuperAdmin(vt.user) THEN Finish(r, 403)
        ELSE r

(* An unprotected request *)
Open(kind, param, body) ==
    [pc |-> "run", kind |-> kind, cookie |-> NoCookie, param |-> param,
     body |-> body, user |-> NoUser, status |-> 0, result |-> <<>>]

At(s, kind, pc) == reqs[s].kind = kind /\ reqs[s].pc = pc

SetReq(s, r) == reqs' = [reqs EXCEPT ![s] = r]

----------------------------------------------------------------------------
(* POST /login *)

(* The attributes of the Set-Cookie header of res.cookie("token", token,   *)
(* {secure, sameSite}): Express marks a cookie HttpOnly only when the      *)
(* options say httpOnly: true.  secure and sameSite depend on NODE_ENV     *)
(* alone and are kept as the source's expressions.                         *)
LoginCookieOptions ==
    [name |-> "token", httpOnly |-> FALSE,
     secure |-> "NODE_ENV === production",
     sameSite |-> "NODE_ENV === production ? none : strict"]

(* The attributes of res.clearCookie("token", {httpOnly: true, ...}) *)
ClearCookieOptions ==
    [name |-> "token", httpOnly |-> TRUE,
     secure |-> "NODE_ENV === production",
     sameSite |-> "NODE_ENV === production ? none : strict"]

(* The response of a successful login carries the Set-Cookie attributes *)
Login(s, email, emailVerified) ==
    /\ Free(s)
    /\ LET i == FirstIdx(users, ByEmail(users, email))
           r == Open("login", email, NoBody)
       IN  IF i = 0 THEN SetReq(s, Finish(r, 404)) /\ UNCHANGED jar
           ELSE IF ~emailVerified THEN SetReq(s, Finish(r, 403)) /\ UNCHANGED jar
           ELSE /\ jar' = [jar EXCEPT ![s] = JwtSign(users[i])]
                /\ SetReq(s, FinishWith(r, 200, <<LoginCookieOptions>>))
    /\ UNCHANGED <<users, notices, events, now, nextId>>

(* POST /logout *)
Logout(s) ==
    /\ Free(s)
    /\ jar' = [jar EXCEPT ![s] = NoCookie]
    /\ SetReq(s, FinishWith(Open("logout", NULL, NoBody), 200, <<ClearCookieOptions>>))
    /\ UNCHANGED <<users, notices, events, now, nextId>>

(* Time passes: the clock jwt.sign and jwt.verify read advances by a tick *)
Tick ==
    /\ now < MaxClock
    /\ now' = now + 1
    /\ UNCHANGED <<users, notices, events, jar, nextId, reqs>>

----------------------------------------------------------------------------
(* POST /signup *)

SignupStart(s, body) ==
    /\ Free(s)
    /\ Len(users) + Cardinality({t \in Clients : At(t, "signup", "insert")}) < MaxUsers
    /\ LET r == Open("signup", NULL, body)
       IN  IF ~Truthy(body.fullName) \/ ~Truthy(body.id) \/ ~Truthy(body.email)
              \/ ~Truthy(body.userType) \/ ~Truthy(body.department)
           THEN SetReq(s, Finish(r, 400))
           ELSE IF ByEmail(users, body.email) # {}
           THEN SetReq(s, Finish(r, 400))
           ELSE SetReq(s, [r EXCEPT !.pc = "insert"])
    /\ UNCHANGED <<users, notices, events, jar, now, nextId>>

(* Mutant: the stored document is the request body, with the role as a default *)
SignupInsertSpreadingBody(s) ==
    /\ At(s, "signup", "insert")
    /\ LET b == reqs[s].body
           userData == [fullName |-> b.fullName, id |-> b.id, email |-> b.email,
                        userType |-> b.userType, department |-> b.department,
                        image |-> b.image, designation |-> b.designation,
                        adminRole |-> IF "adminRole" \in DOMAIN b /\ Truthy(b.adminRole)
                                      THEN b.adminRole ELSE "user"]
       IN  users' = Append(users, userData)
    /\ SetReq(s, Finish(reqs[s], 201))
    /\ UNCHANGED <<notices, events, jar, now, nextId>>

SignupInsert(s) ==
    /\ At(s, "signup", "insert")
    /\ LET b == reqs[s].body
           userData == [fullName |-> b.fullName, id |-> b.id, email |-> b.email,
                        userType |-> b.userType, department |-> b.department,
                        image |-> b.image, designation |-> b.designation,
                        adminRole |-> "user"]
       IN  users' = Append(users, userData)
    /\ SetReq(s, Finish(reqs[s], 201))
    /\ UNCHANGED <<notices, events, jar, now, nextId>>

----------------------------------------------------------------------------
(* PATCH /users/:email/role *)

PromoteStart(s, cookie, email) ==
    /\ Free(s)
    /\ LET r == Admit("promote", cookie, email, NoBody)
       IN  SetReq(s, IF r.pc = "done" THEN r ELSE [r EXCEPT !.pc = "find"])
    /\ UNCHANGED <<users, notices, events, jar, now, nextId>>

(* Mutant: an already promoted target is refused with 403 *)
PromoteFindForbidden(s) ==
    /\ At(s, "promote", "find")
    /\ LET i == FirstIdx(users, ByEmail(users, reqs[s].param))
       IN  IF i = 0 THEN SetReq(s, Finish(reqs[s], 404))
           ELSE IF users[i].adminRole = "admin" \/ users[i].adminRole = "superadmin"
           THEN SetReq(s, Finish(reqs[s], 403))
           ELSE SetReq(s, [reqs[s] EXCEPT !.pc = "update"])
    /\ UNCHANGED <<users, notices, events, jar, now, nextId>>

PromoteFind(s) ==
    /\ At(s, "promote", "find")
    /\ LET i == FirstIdx(users, ByEmail(users, reqs[s].param))
       IN  IF i = 0 THEN SetReq(s, Finish(reqs[s], 404))
           ELSE IF users[i].adminRole = "admin" \/ users[i].adminRole = "superadmin"
           THEN SetReq(s, Finish(reqs[s], 400))
           ELSE SetReq(s, [reqs[s] EXCEPT !.pc = "update"])
    /\ UNCHANGED <<users, notices, events, jar, now, nextId>>

PromoteUpdate(s) ==
    /\ At(s, "promote", "update")
    /\ LET i == FirstIdx(users, ByEmail(users, reqs[s].param))
           modifiedCount == IF i # 0 /\ users[i].adminRole # "admin" THEN 1 ELSE 0
       IN  /\ users' = IF i = 0 THEN users ELSE [users EXCEPT ![i].adminRole = "admin"]
           /\ SetReq(s, Finish(reqs[s], IF modifiedCount = 0 THEN 500 ELSE 200))
    /\ UNCHANGED <<notices, events, jar, now, nextId>>

----------------------------------------------------------------------------
(* PATCH /users/:email/demote *)

DemoteStart(s, cookie, email) ==
    /\ Free(s)
    /\ LET r == Admit("demote", cookie, email, NoBody)
       IN  SetReq(s, IF r.pc = "done" THEN r ELSE [r EXCEPT !.pc = "find"])
    /\ UNCHANGED <<users, notices, events, jar, now, nextId>>

(* Mutant: no test of the target's role before demoting *)
DemoteFindAnyTarget(s) ==
    /\ At(s, "demote", "find")
    /\ LET i == FirstIdx(users, ByEmail(users, reqs[s].param))
       IN  IF i = 0 THEN SetReq(s, Finish(reqs[s], 404))
           ELSE SetReq(s, [reqs[s] EXCEPT !.pc = "update"])
    /\ UNCHANGED <<users, notices, events, jar, now, nextId>>

DemoteFind(s) ==
    /\ At(s, "demote", "find")
    /\ LET i == FirstIdx(users, ByEmail(users, reqs[s].param))
       IN  IF i = 0 THEN SetReq(s, Finish(reqs[s], 404))
           ELSE IF users[i].adminRole = "superadmin"
           THEN SetReq(s, Finish(reqs[s], 403))
           ELSE SetReq(s, [reqs[s] EXCEPT !.pc = "update"])
    /\ UNCHANGED <<users, notices, events, jar, now, nextId>>

DemoteUpdate(s) ==
    /\ At(s, "demote", "update")
    /\ LET i == FirstIdx(users, ByEmail(users, reqs[s].param))
           modifiedCount == IF i # 0 /\ users[i].adminRole # "user" THEN 1 ELSE 0
       IN  /\ users' = IF i = 0 THEN users ELSE [users EXCEPT ![i].adminRole = "user"]
           /\ SetReq(s, Finish(reqs[s], IF modifiedCount = 0 THEN 500 ELSE 200))
    /\ UNCHANGED <<notices, events, jar, now, nextId>>

----------------------------------------------------------------------------
(* DELETE /users/:email *)

DeleteUserStart(s, cookie, email) ==
    /\ Free(s)
    /\ LET r == Admit("deleteUser", cookie, email, NoBody)
       IN  SetReq(s, IF r.pc = "done" THEN r ELSE [r EXCEPT !.pc = "find"])
    /\ UNCHANGED <<users, notices, events, jar, now, nextId>>

(* Mutant: no test of the target's role before deleting *)
DeleteUserFindAnyTarget(s) ==
    /\ At(s, "deleteUser", "find")
    /\ LET i == FirstIdx(users, ByEmail(users, reqs[s].param))
       IN  IF i = 0 THEN SetReq(s, Finish(reqs[s], 404))
           ELSE SetReq(s, [reqs[s] EXCEPT !.pc = "delete"])
    /\ UNCHANGED <<users, notices, events, jar, now, nextId>>

DeleteUserFind(s) ==
    /\ At(s, "deleteUser", "find")
    /\ LET i == FirstIdx(users, ByEmail(users, reqs[s].param))
       IN  IF i = 0 THEN SetReq(s, Finish(reqs[s], 404))
           ELSE IF users[i].adminRole = "superadmin"
           THEN SetReq(s, Finish(reqs[s], 403))
           ELSE SetReq(s, [reqs[s] EXCEPT !.pc = "delete"])
    /\ UNCHANGED <<users, notices, events, jar, now, nextId>>

DeleteUserDelete(s) ==
    /\ At(s, "deleteUser", "delete")
    /\ LET i == FirstIdx(users, ByEmail(users, reqs[s].param))
           deletedCount == IF i = 0 THEN 0 ELSE 1
       IN  /\ users' = IF i = 0 THEN users ELSE RemoveAt(users, i)
           /\ SetReq(s, Finish(reqs[s], IF deletedCount = 0 THEN 500 ELSE 200))
    /\ UNCHANGED <<notices, events, jar, now, nextId>>

----------------------------------------------------------------------------
(* PATCH /users/:email *)

PatchUserStart(s, cookie, email, body) ==
    /\ Free(s)
    /\ LET r == Admit("patchUser", cookie, email, body)
       IN  IF r.pc = "done" THEN SetReq(s, r)
           ELSE IF email # r.user.email /\ r.user.adminRole # "admin"
                   /\ r.user.adminRole # "superadmin"
           THEN SetReq(s, Finish(r, 403))
           ELSE IF ~Truthy(body.fullName) \/ ~Truthy(body.designation)
           THEN SetReq(s, Finish(r, 400))
           ELSE SetReq(s, [r EXCEPT !.pc = "update"])
    /\ UNCHANGED <<users, notices, events, jar, now, nextId>>

(* $set of fullName, designation and, when truthy, image *)
UpdatedUser(user, body) ==
    [user EXCEPT !.fullName = body.fullName,
                 !.designation = body.designation,
                 !.image = IF Truthy(body.image) THEN body.image ELSE @]

PatchUserUpdate(s) ==
    /\ At(s, "patchUser", "update")
    /\ LET i == FirstIdx(users, ByEmail(users, reqs[s].param))
           modifiedCount ==
               IF i # 0 /\ UpdatedUser(users[i], reqs[s].body) # users[i] THEN 1 ELSE 0
       IN  /\ users' = IF i = 0 THEN users
                       ELSE [users EXCEPT ![i] = UpdatedUser(users[i], reqs[s].body)]
           /\ SetReq(s, Finish(reqs[s], IF modifiedCount = 0 THEN 404 ELSE 200))
    /\ UNCHANGED <<notices, events, jar, now, nextId>>

----------------------------------------------------------------------------
(* GET /users *)

(* No middleware: the token cookie the client sends is never read *)
GetUsers(s, cookie) ==
    /\ Free(s)
    /\ SetReq(s, FinishWith([Open("getUsers", NULL, NoBody) EXCEPT !.cookie = cookie],
                            200, users))
    /\ UNCHANGED <<users, notices, events, jar, now, nextId>>

----------------------------------------------------------------------------
(* GET /users/:email *)

(* Mutant: the ownership check compares as the lookup does *)
GetUserStartIgnoringCase(s, cookie, email) ==
    /\ Free(s)
    /\ LET r == Admit("getUser", cookie, email, NoBody)
       IN  IF r.pc = "done" THEN SetReq(s, r)
           ELSE IF ~RegExpTest(email, r.user.email) /\ r.user.adminRole # "admin"
                   /\ r.user.adminRole # "superadmin"
           THEN SetReq(s, Finish(r, 403))
           ELSE SetReq(s, [r EXCEPT !.pc = "find"])
    /\ UNCHANGED <<users, notices, events, jar, now, nextId>>

GetUserStart(s, cookie, email) ==
    /\ Free(s)
    /\ LET r == Admit("getUser", cookie, email, NoBody)
       IN  IF r.pc = "done" THEN SetReq(s, r)
           ELSE IF email # r.user.email /\ r.user.adminRole # "admin"
                   /\ r.user.adminRole # "superadmin"
           THEN SetReq(s, Finish(r, 403))
           ELSE SetReq(s, [r EXCEPT !.pc = "find"])
    /\ UNCHANGED <<users, notices, events, jar, now, nextId>>

GetUserFind(s) ==
    /\ At(s, "getUser", "find")
    /\ LET i == FirstIdx(users, ByEmailPattern(users, reqs[s].param))
       IN  SetReq(s, IF i = 0 THEN Finish(reqs[s], 404)
                     ELSE FinishWith(reqs[s], 200, <<users[i]>>))
    /\ UNCHANGED <<users, notices, events, jar, now, nextId>>

----------------------------------------------------------------------------
(* ObjectIds *)

(* A request parameter new ObjectId(id) throws on *)
BadId == "zz"

ValidObjectId(id) == id # BadId

FreshId == ToString(nextId)

(* Inserts still possible within the bound, counting the ones under way *)
CanInsert ==
    nextId + Cardinality({t \in Clients : reqs[t].pc = "insert"
                                         /\ reqs[t].kind \in {"postNotice", "postEvent"}})
        <= MaxDocs

(* find(query).toArray(): the matching documents in natural order *)
Find(coll, matching) ==
    LET Test(d) == d \in matching
    IN  SelectSeq(coll, Test)

(* JavaScript property access: undefined when the object has no such field *)
Prop(obj, field) == IF field \in DOMAIN obj THEN obj[field] ELSE NULL

----------------------------------------------------------------------------
(* GET /notices *)

(* Mutant: the audience clause without "All" *)
NoticeQueryWithoutAll(user) ==
    IF user.adminRole # "admin" /\ user.adminRole # "superadmin"
    THEN {d \in Range(notices) :
            \/ d.targetAudience \in {Prop(user, "userType")}
            \/ d.department \in {user.department}}
    ELSE Range(notices)

(* Mutant: the audience clause alone *)
NoticeQueryAudienceOnly(user) ==
    IF user.adminRole # "admin" /\ user.adminRole # "superadmin"
    THEN {d \in Range(notices) : d.targetAudience \in {"All", Prop(user, "userType")}}
    ELSE Range(notices)

(* The documents the query of GET /notices selects.  $in: [x] on a field    *)
(* is equality with x; an undefined x is sent as null, which matches a      *)
(* null or missing field.                                                   *)
NoticeQuery(user) ==
    IF user.adminRole # "admin" /\ user.adminRole # "superadmin"
    THEN {d \in Range(notices) :
            \/ d.targetAudience \in {"All", Prop(user, "userType")}
            \/ d.department \in {user.department}}
    ELSE Range(notices)

GetNoticesStart(s, cookie) ==
    /\ Free(s)
    /\ LET r == Admit("getNotices", cookie, NULL, NoBody)
       IN  SetReq(s, IF r.pc = "done" THEN r ELSE [r EXCEPT !.pc = "find"])
    /\ UNCHANGED <<users, notices, events, jar, now, nextId>>

GetNoticesFind(s) ==
    /\ At(s, "getNotices", "find")
    /\ SetReq(s, FinishWith(reqs[s], 200, Find(notices, NoticeQuery(reqs[s].user))))
    /\ UNCHANGED <<users, notices, events, jar, now, nextId>>

----------------------------------------------------------------------------
(* GET /notices/:id *)

GetNoticeStart(s, cookie, id) ==
    /\ Free(s)
    /\ LET r == Admit("getNotice", cookie, id, NoBody)
       IN  SetReq(s, IF r.pc = "done" THEN r
                     ELSE IF ~ValidObjectId(id) THEN Finish(r, 500)
                     ELSE [r EXCEPT !.pc = "find"])
    /\ UNCHANGED <<users, notices, events, jar, now, nextId>>

GetNoticeFind(s) ==
    /\ At(s, "getNotice", "find")
    /\ LET i == FirstIdx(notices, ById(notices, reqs[s].param))
       IN  SetReq(s, IF i = 0 THEN Finish(reqs[s], 404)
                     ELSE FinishWith(reqs[s], 200, <<notices[i]>>))
    /\ UNCHANGED <<users, notices, events, jar, now, nextId>>

----------------------------------------------------------------------------
(* POST /notices *)

(* Mutant: the department is not required *)
NoticeFieldsMissingButDepartment(body) ==
    \/ ~Truthy(body.title) \/ ~Truthy(body.category) \/ ~Truthy(body.description)
    \/ ~Truthy(body.date) \/ ~Truthy(body.targetAudience)

NoticeFieldsMissing(body) ==
    \/ ~Truthy(body.title) \/ ~Truthy(body.category) \/ ~Truthy(body.description)
    \/ ~Truthy(body.date) \/ ~Truthy(body.targetAudience) \/ ~Truthy(body.department)

NoticeDoc(id, body) ==
    [id |-> id, title |-> body.title, category |-> body.category,
     description |-> body.description, image |-> body.image, date |-> body.date,
     targetAudience |-> body.targetAudience, department |-> body.department]

PostNoticeStart(s, cookie, body) ==
    /\ Free(s)
    /\ CanInsert
    /\ LET r == Admit("postNotice", cookie, NULL, body)
       IN  SetReq(s, IF r.pc = "done" THEN r
                     ELSE IF NoticeFieldsMissing(body) THEN Finish(r, 400)
                     ELSE [r EXCEPT !.pc = "insert"])
    /\ UNCHANGED <<users, notices, events, jar, now, nextId>>

PostNoticeInsert(s) ==
    /\ At(s, "postNotice", "insert")
    /\ notices' = Append(notices, NoticeDoc(FreshId, reqs[s].body))
    /\ nextId' = nextId + 1
    /\ SetReq(s, FinishWith(reqs[s], 201, <<NoticeDoc(FreshId, reqs[s].body)>>))
    /\ UNCHANGED <<users, events, jar, now>>

----------------------------------------------------------------------------
(* PUT /notices/:id *)

PutNoticeStart(s, cookie, id, body) ==
    /\ Free(s)
    /\ LET r == Admit("putNotice", cookie, id, body)
       IN  SetReq(s, IF r.pc = "done" THEN r
                     ELSE IF NoticeFieldsMissing(body) THEN Finish(r, 400)
                     ELSE IF ~ValidObjectId(id) THEN Finish(r, 500)
                     ELSE [r EXCEPT !.pc = "update"])
    /\ UNCHANGED <<users, notices, events, jar, now, nextId>>

PutNoticeUpdate(s) ==
    /\ At(s, "putNotice", "update")
    /\ LET i == FirstIdx(notices, ById(notices, reqs[s].param))
           matchedCount == IF i = 0 THEN 0 ELSE 1
       IN  /\ notices' = IF i = 0 THEN notices
                         ELSE [notices EXCEPT ![i] = NoticeDoc(@.id, reqs[s].body)]
           /\ SetReq(s, Finish(reqs[s], IF matchedCount = 0 THEN 404 ELSE 200))
    /\ UNCHANGED <<users, events, jar, now, nextId>>

----------------------------------------------------------------------------
(* DELETE /notices/:id *)

DeleteNoticeStart(s, cookie, id) ==
    /\ Free(s)
    /\ LET r == Admit("deleteNotice", cookie, id, NoBody)
       IN  SetReq(s, IF r.pc = "done" THEN r
                     ELSE IF ~ValidObjectId(id) THEN Finish(r, 500)
                     ELSE [r EXCEPT !.pc = "delete"])
    /\ UNCHANGED <<users, notices, events, jar, now, nextId>>

DeleteNoticeDelete(s) ==
    /\ At(s, "deleteNotice", "delete")
    /\ LET i == FirstIdx(notices, ById(notices, reqs[s].param))
           deletedCount == IF i = 0 THEN 0 ELSE 1
       IN  /\ notices' = IF i = 0 THEN notices ELSE RemoveAt(notices, i)
           /\ SetReq(s, Finish(reqs[s], IF deletedCount = 0 THEN 404 ELSE 200))
    /\ UNCHANGED <<users, events, jar, now, nextId>>

----------------------------------------------------------------------------
(* POST /events, PUT /events/:id, DELETE /events/:id *)

EventFieldsMissing(body) ==
    \/ ~Truthy(body.name) \/ ~Truthy(body.date) \/ ~Truthy(body.time)
    \/ ~Truthy(body.venue) \/ ~Truthy(body.details)

PostEventStart(s, cookie, body) ==
    /\ Free(s)
    /\ CanInsert
    /\ LET r == Admit("postEvent", cookie, NULL, body)
       IN  SetReq(s, IF r.pc = "done" THEN r
                     ELSE IF EventFieldsMissing(body) THEN Finish(r, 400)
                     ELSE [r EXCEPT !.pc = "insert"])
    /\ UNCHANGED <<users, notices, events, jar, now, nextId>>

PostEventInsert(s) ==
    /\ At(s, "postEvent", "insert")
    /\ LET b == reqs[s].body
           newEvent == [id |-> FreshId, name |-> b.name, date |-> b.date,
                        time |-> b.time, venue |-> b.venue, details |-> b.details,
                        image |-> IF Truthy(b.image) THEN b.image ELSE NULL]
       IN  /\ events' = Append(events, newEvent)
           /\ SetReq(s, FinishWith(reqs[s], 201, <<newEvent>>))
    /\ nextId' = nextId + 1
    /\ UNCHANGED <<users, notices, jar, now>>

PutEventStart(s, cookie, id, body) ==
    /\ Free(s)
    /\ LET r == Admit("putEvent", cookie, id, body)
       IN  SetReq(s, IF r.pc = "done" THEN r
                     ELSE IF EventFieldsMissing(body) THEN Finish(r, 400)
                     ELSE IF ~ValidObjectId(id) THEN Finish(r, 500)
                     ELSE [r EXCEPT !.pc = "update"])
    /\ UNCHANGED <<users, notices, events, jar, now, nextId>>

PutEventUpdate(s) ==
    /\ At(s, "putEvent", "update")
    /\ LET i == FirstIdx(events, ById(events, reqs[s].param))
           b == reqs[s].body
           matchedCount == IF i = 0 THEN 0 ELSE 1
       IN  /\ events' = IF i = 0 THEN events
                        ELSE [events EXCEPT ![i] =
                                [id |-> @.id, name |-> b.name, date |-> b.date,
                                 time |-> b.time, venue |-> b.venue,
                                 details |-> b.details, image |-> b.image]]
           /\ SetReq(s, Finish(reqs[s], IF matchedCount = 0 THEN 404 ELSE 200))
    /\ UNCHANGED <<users, notices, jar, now, nextId>>

DeleteEventStart(s, cookie, id) ==
    /\ Free(s)
    /\ LET r == Admit("deleteEvent", cookie, id, NoBody)
       IN  SetReq(s, IF r.pc = "done" THEN r
                     ELSE IF ~ValidObjectId(id) THEN Finish(r, 500)
                     ELSE [r EXCEPT !.pc = "find"])
    /\ UNCHANGED <<users, notices, events, jar, now, nextId>>

DeleteEventFind(s) ==
    /\ At(s, "deleteEvent", "find")
    /\ SetReq(s, IF ById(events, reqs[s].param) = {} THEN Finish(reqs[s], 404)
                 ELSE [reqs[s] EXCEPT !.pc = "delete"])
    /\ UNCHANGED <<users, notices, events, jar, now, nextId>>

DeleteEventDelete(s) ==
    /\ At(s, "deleteEvent", "delete")
    /\ LET i == FirstIdx(events, ById(events, reqs[s].param))
           deletedCount == IF i = 0 THEN 0 ELSE 1
       IN  /\ events' = IF i = 0 THEN events ELSE RemoveAt(events, i)
           /\ SetReq(s, Finish(reqs[s], IF deletedCount = 0 THEN 500 ELSE 200))
    /\ UNCHANGED <<users, notices, jar, now, nextId>>

----------------------------------------------------------------------------
(* Stored state at start-up and the requests clients send *)

Emails == {"root@lu", "old@lu"}

(* The seeded superadmin: no route creates one *)
RootUser ==
    [fullName |-> "N1", id |-> "1", email |-> "root@lu", userType |-> "staff",
     department |-> "CSE", image |-> NULL, designation |-> "D1",
     adminRole |-> "superadmin"]

(* An account registered before signup stored adminRole (src/unnamed/part_000) *)
OldUser ==
    [fullName |-> "N1", id |-> "2", email |-> "old@lu", userType |-> "student",
     department |-> "CSE", image |-> NULL, designation |-> NULL,
     adminRole |-> NULL]

(* The account each client logs in to *)
Account == [c \in Clients |-> IF c = "c1" THEN "root@lu" ELSE "old@lu"]

SignupBody(email, userType, department) ==
    [fullName |-> "N1", id |-> "2", email |-> email, userType |-> userType,
     designation |-> NULL, department |-> department, image |-> NULL]

(* The signup bodies a browser sends *)
SignupBodies == {SignupBody(e, "student", "CSE") : e \in Emails}

PatchBody(fullName) == [fullName |-> fullName, designation |-> "D1", image |-> NULL]

Init ==
    /\ users = <<RootUser, OldUser>>
    /\ notices = <<>>
    /\ events = <<>>
    /\ jar = [s \in Clients |-> NoCookie]
    /\ now = 0
    /\ nextId = 1
    /\ reqs = [s \in Clients |-> IdleReq]

(* User administration: signup, login, profile update, promotion,          *)
(* demotion and deletion.  Client c1 is the superadmin's console, client   *)
(* c2 the browser of the other account; either may send its cookie, none   *)
(* or a forged one, and the two requests interleave at every await.        *)
Console(s) ==
    \/ \E v \in BOOLEAN : Login(s, Account[s], v)
    \/ \E c \in Cookies(s), e \in Emails : PromoteStart(s, c, e)
    \/ PromoteFind(s)
    \/ PromoteUpdate(s)
    \/ \E c \in Cookies(s), e \in Emails : DemoteStart(s, c, e)
    \/ DemoteFind(s)
    \/ DemoteUpdate(s)
    \/ \E c \in Cookies(s), e \in Emails : DeleteUserStart(s, c, e)
    \/ DeleteUserFind(s)
    \/ DeleteUserDelete(s)

Browser(s) ==
    \/ \E v \in BOOLEAN : Login(s, Account[s], v)
    \/ \E b \in SignupBodies : SignupStart(s, b)
    \/ SignupInsert(s)
    \/ \E c \in Cookies(s), e \in Emails : PromoteStart(s, c, e)
    \/ \E c \in Cookies(s), e \in Emails : DemoteStart(s, c, e)
    \/ \E c \in Cookies(s), e \in Emails : DeleteUserStart(s, c, e)
    \/ DeleteUserFind(s)
    \/ DeleteUserDelete(s)
    \/ \E c \in Cookies(s), e \in Emails, n \in {"N1", NULL} :
            PatchUserStart(s, c, e, PatchBody(n))
    \/ PatchUserUpdate(s)

Next == Console("c1") \/ Browser("c2")

Spec == Init /\ [][Next]_vars

----------------------------------------------------------------------------
(* Content administration: every route behind verifyAdmin or               *)
(* verifySuperAdmin, called by a superadmin and by an account whose role   *)
(* the superadmin changes.                                                 *)

NoticeBody(targetAudience, department) ==
    [title |-> "T", category |-> "C", description |-> "D", image |-> NULL,
     date |-> "2025", targetAudience |-> targetAudience, department |-> department]

EventBody(name) ==
    [name |-> name, date |-> "2025", time |-> "10", venue |-> "V",
     details |-> "D", image |-> NULL]

DocIds == {ToString(k) : k \in 1..MaxDocs}

(* The superadmin's console: user administration *)
GateConsole(s) ==
    \/ Login(s, Account[s], TRUE)
    \/ \E e \in Emails : PromoteStart(s, jar[s], e)
    \/ PromoteFind(s)
    \/ PromoteUpdate(s)
    \/ \E e \in Emails : DemoteStart(s, jar[s], e)
    \/ DemoteFind(s)
    \/ DemoteUpdate(s)
    \/ \E e \in Emails : DeleteUserStart(s, jar[s], e)
    \/ DeleteUserFind(s)
    \/ DeleteUserDelete(s)

(* The other account's browser: every gated route *)
GateBrowser(s) ==
    \/ Login(s, Account[s], TRUE)
    \/ \E e \in Emails : PromoteStart(s, jar[s], e)
    \/ \E e \in Emails : DemoteStart(s, jar[s], e)
    \/ \E e \in Emails : DeleteUserStart(s, jar[s], e)
    \/ DeleteUserFind(s)
    \/ DeleteUserDelete(s)
    \/ PostNoticeStart(s, jar[s], NoticeBody("All", "CSE"))
    \/ PostNoticeInsert(s)
    \/ \E id \in DocIds : PutNoticeStart(s, jar[s], id, NoticeBody("student", "CSE"))
    \/ PutNoticeUpdate(s)
    \/ \E id \in DocIds : DeleteNoticeStart(s, jar[s], id)
    \/ DeleteNoticeDelete(s)
    \/ PostEventStart(s, jar[s], EventBody("E1"))
    \/ PostEventInsert(s)
    \/ \E id \in DocIds : PutEventStart(s, jar[s], id, EventBody("E2"))
    \/ PutEventUpdate(s)
    \/ \E id \in DocIds : DeleteEventStart(s, jar[s], id)
    \/ DeleteEventFind(s)
    \/ DeleteEventDelete(s)

NextGate == GateConsole("c1") \/ GateBrowser("c2")

SpecGate == Init /\ [][NextGate]_vars

----------------------------------------------------------------------------
(* Notice board: a superadmin maintains the notices, a member of any user  *)
(* type and department lists them.                                         *)

UserTypes == {"student", "faculty"}

Departments == {"CSE", "EEE"}

Member(userType, department) ==
    [fullName |-> "N1", id |-> "2", email |-> "old@lu", userType |-> userType,
     department |-> department, image |-> NULL, designation |-> NULL,
     adminRole |-> "user"]

InitNotices ==
    /\ \E t \in UserTypes, d \in Departments \cup {NULL} :
            users = <<RootUser, Member(t, d)>>
    /\ notices = <<>>
    /\ events = <<>>
    /\ jar = [s \in Clients |-> NoCookie]
    /\ now = 0
    /\ nextId = 1
    /\ reqs = [s \in Clients |-> IdleReq]

(* The superadmin's console: the notice board and its listing *)
NoticesConsole(s) ==
    \/ Login(s, Account[s], TRUE)
    \/ GetNoticesStart(s, jar[s])
    \/ GetNoticesFind(s)
    \/ \E t \in UserTypes \cup {"All"}, d \in Departments \cup {NULL} :
            PostNoticeStart(s, jar[s], NoticeBody(t, d))
    \/ PostNoticeInsert(s)
    \/ \E id \in DocIds, t \in UserTypes \cup {"All"}, d \in Departments \cup {NULL} :
            PutNoticeStart(s, jar[s], id, NoticeBody(t, d))
    \/ PutNoticeUpdate(s)
    \/ \E id \in DocIds : DeleteNoticeStart(s, jar[s], id)
    \/ DeleteNoticeDelete(s)

(* The member's browser: reading *)
NoticesBrowser(s) ==
    \/ Login(s, Account[s], TRUE)
    \/ GetNoticesStart(s, jar[s])
    \/ GetNoticesFind(s)
    \/ \E id \in DocIds : GetNoticeStart(s, jar[s], id)
    \/ GetNoticeFind(s)

NextNotices == NoticesConsole("c1") \/ NoticesBrowser("c2")

SpecNotices == InitNotices /\ [][NextNotices]_vars

----------------------------------------------------------------------------
(* Accounts: people register under emails that differ by case only, log    *)
(* in, and read and update profiles, while the superadmin reads them too.  *)
(* Both clients may register, so that two signups can be between their     *)
(* findOne and their insertOne at the same time.                           *)

SignupEmails == {"old@lu", "OLD@lu"}

(* A signup body that also carries a role *)
RegisterBody(email, adminRole) ==
    [fullName |-> "N1", id |-> "2", email |-> email, userType |-> "student",
     designation |-> NULL, department |-> "CSE", image |-> NULL,
     adminRole |-> adminRole]

(* The signup bodies sent in this scenario: either spelling of the email,  *)
(* with and without a role of the sender's choosing                        *)
RegisterBodies == {RegisterBody(e, a) : e \in SignupEmails, a \in {NULL, "superadmin"}}

InitAccounts ==
    /\ users = <<RootUser>>
    /\ notices = <<>>
    /\ events = <<>>
    /\ jar = [s \in Clients |-> NoCookie]
    /\ now = 0
    /\ nextId = 1
    /\ reqs = [s \in Clients |-> IdleReq]

(* The superadmin's desk *)
Desk(s) ==
    \/ Login(s, Account[s], TRUE)
    \/ \E b \in RegisterBodies : SignupStart(s, b)
    \/ SignupInsert(s)
    \/ \E e \in SignupEmails : GetUserStart(s, jar[s], e)
    \/ GetUserFind(s)
    \/ PatchUserStart(s, jar[s], "old@lu", PatchBody("N1"))
    \/ PatchUserUpdate(s)
    \/ PromoteStart(s, jar[s], "old@lu")
    \/ PromoteFind(s)
    \/ PromoteUpdate(s)

(* Somebody's browser *)
Visitor(s) ==
    \/ \E e \in SignupEmails : Login(s, e, TRUE)
    \/ \E b \in RegisterBodies : SignupStart(s, b)
    \/ SignupInsert(s)
    \/ GetUsers(s, jar[s])
    \/ \E e \in SignupEmails : GetUserStart(s, jar[s], e)
    \/ GetUserFind(s)
    \/ \E e \in SignupEmails : PatchUserStart(s, jar[s], e, PatchBody("N1"))
    \/ PatchUserUpdate(s)

NextAccounts == Desk("c1") \/ Visitor("c2")

SpecAccounts == InitAccounts /\ [][NextAccounts]_vars

----------------------------------------------------------------------------
(* Sessions: an account logs in and out and reads its profile while time   *)
(* passes; the account may be deleted from the superadmin's console, from  *)
(* which accounts are registered as well.                                  *)

(* The signup bodies sent from the console: no role asked for *)
ConsoleBodies == {RegisterBody(e, NULL) : e \in SignupEmails}

SessionConsole(s) ==
    \/ Login(s, Account[s], TRUE)
    \/ DeleteUserStart(s, jar[s], "old@lu")
    \/ DeleteUserFind(s)
    \/ DeleteUserDelete(s)
    \/ \E b \in ConsoleBodies : SignupStart(s, b)
    \/ SignupInsert(s)

SessionBrowser(s) ==
    \/ \E v \in BOOLEAN : Login(s, Account[s], v)
    \/ Logout(s)
    \/ \E c \in Cookies(s) : GetUserStart(s, c, Account[s])
    \/ GetUserFind(s)

NextSession == SessionConsole("c1") \/ SessionBrowser("c2") \/ Tick

SpecSession == Init /\ [][NextSession]_vars

----------------------------------------------------------------------------
(* Vocabulary of the properties *)

ProtectedKinds ==
    {"promote", "demote", "deleteUser", "getUser", "patchUser", "getNotices", "getNotice",
     "postNotice", "putNotice", "deleteNotice", "postEvent", "putEvent", "deleteEvent"}

AdminGated ==
    {"deleteUser", "postNotice", "putNotice", "deleteNotice",
     "postEvent", "putEvent", "deleteEvent"}

SuperAdminGated == {"promote", "demote"}

InFlight(r) == r.pc \notin {"idle", "done"}

(* This step is the arrival of a new request of client s *)
Arrives(s) == ~InFlight(reqs[s]) /\ reqs'[s] # reqs[s]

(* This step answers the request of client s *)
Responds(s) == reqs'[s] # reqs[s] /\ reqs'[s].pc = "done"

(* This step is a storage operation of the request client s has in flight *)
Continues(s) == InFlight(reqs[s]) /\ reqs'[s] # reqs[s]

StorageUnchanged == users' = users /\ notices' = notices /\ events' = events

Unexpired(cookie) == cookie.present /\ cookie.signed /\ now < cookie.exp

Stored(email) == {u \in Range(users) : u.email = email}

RoleOf(u) == IF u.adminRole = NULL THEN "user" ELSE u.adminRole

----------------------------------------------------------------------------
(* C1: on every protected route verifyToken answers 401 when there is no   *)
(* token cookie, else 403 when the token does not verify, else 404 when no *)
(* User record has the token's email; in these three cases the handler     *)
(* never runs and storage is unchanged.  Otherwise the chain continues     *)
(* with the identity of the stored record, its role being the stored role, *)
(* or user when the record has none.                                       *)
C1_SessionResolverOrder ==
    [][\A s \in Clients :
        Arrives(s) /\ reqs'[s].kind \in ProtectedKinds =>
            LET r == reqs'[s]
                c == r.cookie
                failed(st) == /\ r.pc = "done" /\ r.status = st
                              /\ r.user = NoUser /\ StorageUnchanged
            IN  /\ ~c.present => failed(401)
                /\ c.present /\ ~Unexpired(c) => failed(403)
                /\ Unexpired(c) /\ Stored(c.email) = {} => failed(404)
                /\ Unexpired(c) /\ Stored(c.email) # {} =>
                      /\ r.user.email = c.email
                      /\ \E u \in Stored(c.email) :
                            /\ r.user.adminRole = RoleOf(u)
                            /\ r.user.department = u.department
                      /\ r.status \notin {401, 404}
      ]_vars

(* C1 witness: a signed, unexpired token whose account is gone was         *)
(* answered 404 while the other client's request went on as superadmin.    *)
C1_Witness ==
    /\ reqs["c2"].kind \in ProtectedKinds
    /\ reqs["c2"].pc = "done" /\ reqs["c2"].status = 404
    /\ reqs["c2"].cookie.signed /\ reqs["c2"].user = NoUser
    /\ Stored(reqs["c2"].cookie.email) = {}
    /\ InFlight(reqs["c1"]) /\ reqs["c1"].user.adminRole = "superadmin"

----------------------------------------------------------------------------
(* C2: for a caller resolved with role r, a route behind verifyAdmin goes  *)
(* on exactly when r is admin or superadmin and a route behind             *)
(* verifySuperAdmin exactly when r is superadmin; a refused request is     *)
(* answered 403 at once, its handler touching no storage.  Hence every     *)
(* change of Notices or Events and every removal of a User is a step of a  *)
(* request resolved as admin or superadmin, and every change of a stored   *)
(* role a step of a request resolved as superadmin.                        *)
C2_RoleGates ==
    [][/\ \A s \in Clients :
            Arrives(s) /\ reqs'[s].user.email # NULL =>
                LET r == reqs'[s]
                    refused == r.pc = "done" /\ r.status = 403
                IN  /\ r.user.adminRole \in Roles
                    /\ r.kind \in AdminGated =>
                          (~refused <=> r.user.adminRole \in {"admin", "superadmin"})
                    /\ r.kind \in SuperAdminGated =>
                          (~refused <=> r.user.adminRole = "superadmin")
                    /\ r.kind \in AdminGated \cup SuperAdminGated /\ refused =>
                          StorageUnchanged
       /\ notices' # notices \/ events' # events \/ Len(users') < Len(users) =>
            \E s \in Clients :
                /\ Continues(s) /\ reqs[s].kind \in AdminGated
                /\ reqs[s].user.adminRole \in {"admin", "superadmin"}
       /\ /\ Len(users') = Len(users)
          /\ \E i \in 1..Len(users) : users'[i].adminRole # users[i].adminRole
          => \E s \in Clients :
                /\ Continues(s) /\ reqs[s].kind \in SuperAdminGated
                /\ reqs[s].user.adminRole = "superadmin"
      ]_vars

(* C2 witness: the account that created the notice as admin is refused,    *)
(* once demoted, when it asks to delete it.                                *)
C2_Witness ==
    /\ reqs["c2"].kind = "deleteNotice" /\ reqs["c2"].pc = "done"
    /\ reqs["c2"].status = 403 /\ reqs["c2"].user.adminRole = "user"
    /\ Len(notices) = 1

----------------------------------------------------------------------------
(* C3: a protected request that arrives after a promotion or demotion is   *)
(* authorized by the role stored at that moment, whatever role claim its   *)
(* token carries; the identity of a request already past the middleware    *)
(* does not change while it is in flight.                                  *)
C3_RoleChangeOnNextRequest ==
    [][\A s \in Clients :
        /\ Arrives(s) /\ reqs'[s].kind \in ProtectedKinds /\ Unexpired(reqs'[s].cookie)
                /\ Stored(reqs'[s].cookie.email) # {} =>
              LET r == reqs'[s]
                  refused == r.pc = "done" /\ r.status = 403
              IN  \E u \in Stored(r.cookie.email) :
                    /\ r.user.adminRole = RoleOf(u)
                    /\ r.kind \in AdminGated => (refused <=> RoleOf(u) = "user")
                    /\ r.kind \in SuperAdminGated => (refused <=> RoleOf(u) # "superadmin")
        /\ InFlight(reqs[s]) => reqs'[s].user = reqs[s].user
      ]_vars

(* C3 witness: a deletion admitted as admin on a token issued before the   *)
(* promotion is still in flight after its caller was demoted.              *)
C3_Witness ==
    /\ reqs["c2"].kind = "deleteUser" /\ InFlight(reqs["c2"])
    /\ reqs["c2"].user.adminRole = "admin"
    /\ reqs["c2"].cookie.signed /\ reqs["c2"].cookie.adminRole # "admin"
    /\ \E u \in Stored(reqs["c2"].user.email) : u.adminRole = "user"

----------------------------------------------------------------------------
(* C4 as stated: once DELETE /users/:email has answered 200 for an         *)
(* account, every later protected request carrying an unexpired token of   *)
(* that account is answered 404.                                           *)
C4_DeletedAlways404 ==
    [][\A s, t \in Clients :
        /\ t # s
        /\ reqs[t].kind = "deleteUser" /\ reqs[t].pc = "done" /\ reqs[t].status = 200
        /\ Arrives(s) /\ reqs'[s].kind \in ProtectedKinds
        /\ Unexpired(reqs'[s].cookie) /\ reqs'[s].cookie.email = reqs[t].param
        => reqs'[s].pc = "done" /\ reqs'[s].status = 404
      ]_vars

(* C4 amended: once DELETE /users/:email has answered 200 for an account,  *)
(* a later protected request carrying an unexpired token of that account   *)
(* is answered 404, never 401, as long as no User record has that email    *)
(* (the email has not been registered again).                              *)
C4_Deleted404UntilRegisteredAgain ==
    [][\A s, t \in Clients :
        /\ t # s
        /\ reqs[t].kind = "deleteUser" /\ reqs[t].pc = "done" /\ reqs[t].status = 200
        /\ Arrives(s) /\ reqs'[s].kind \in ProtectedKinds
        /\ Unexpired(reqs'[s].cookie) /\ reqs'[s].cookie.email = reqs[t].param
        /\ Stored(reqs[t].param) = {}
        => reqs'[s].pc = "done" /\ reqs'[s].status = 404
      ]_vars

(* C4 witness: the account was deleted and its token answered 404 *)
C4_Witness ==
    /\ reqs["c1"].kind = "deleteUser" /\ reqs["c1"].pc = "done"
    /\ reqs["c1"].status = 200 /\ reqs["c1"].param = "old@lu"
    /\ reqs["c2"].kind \in ProtectedKinds /\ reqs["c2"].pc = "done"
    /\ reqs["c2"].status = 404 /\ reqs["c2"].cookie.signed
    /\ reqs["c2"].cookie.email = "old@lu"

----------------------------------------------------------------------------
(* C8: PATCH /users/:email/role runs for a superadmin only; when its       *)
(* lookup finds the target with role admin or superadmin it answers 400    *)
(* and changes nothing; when its update finds the target with role user    *)
(* (or none) it sets exactly that record's role to admin and answers 200.  *)
C8_PromoteConflict ==
    [][\A s \in Clients :
        Continues(s) /\ reqs[s].kind = "promote" =>
            LET e == reqs[s].param
                r == reqs'[s]
            IN  /\ reqs[s].user.adminRole = "superadmin"
                /\ reqs[s].pc = "find"
                      /\ (\E u \in Stored(e) : u.adminRole \in {"admin", "superadmin"})
                      => r.pc = "done" /\ r.status = 400 /\ StorageUnchanged
                /\ reqs[s].pc = "find" /\ (\E u \in Stored(e) : RoleOf(u) = "user")
                      => r.pc = "update" /\ StorageUnchanged
                /\ reqs[s].pc = "update" /\ (\E u \in Stored(e) : RoleOf(u) = "user")
                      => /\ r.pc = "done" /\ r.status = 200
                         /\ \E i \in 1..Len(users) :
                                /\ users[i].email = e
                                /\ users' = [users EXCEPT ![i].adminRole = "admin"]
      ]_vars

(* C8 witness: promoting an account that is already admin was answered 400 *)
C8_Witness ==
    /\ reqs["c1"].kind = "promote" /\ reqs["c1"].pc = "done"
    /\ reqs["c1"].status = 400 /\ reqs["c1"].param = "old@lu"
    /\ \E u \in Stored("old@lu") : u.adminRole = "admin"

----------------------------------------------------------------------------
(* C9: a demotion or deletion whose target is a stored superadmin changes  *)
(* no record and is answered 403 whatever the authenticated caller's role: *)
(* by the gate for a caller it rejects, by the handler's lookup otherwise. *)
C9_SuperadminTargetForbidden ==
    [][\A s \in Clients :
        /\ Arrives(s) \/ Continues(s)
        /\ reqs'[s].kind \in {"demote", "deleteUser"}
        /\ reqs'[s].user.email # NULL
        /\ \E u \in Stored(reqs'[s].param) : u.adminRole = "superadmin"
        => /\ users' = users
           /\ reqs'[s].pc = "done" => reqs'[s].status = 403
           /\ Continues(s) => reqs'[s].pc = "done"
      ]_vars

(* C9 witness: a superadmin asked to demote its own account and got 403 *)
C9_Witness ==
    /\ reqs["c1"].kind = "demote" /\ reqs["c1"].pc = "done"
    /\ reqs["c1"].status = 403 /\ reqs["c1"].param = "root@lu"
    /\ reqs["c1"].user.email = "root@lu" /\ reqs["c1"].user.adminRole = "superadmin"

----------------------------------------------------------------------------
(* C10: in every reachable state the accounts with role superadmin are     *)
(* exactly those of the initial state, each still stored once.             *)
C10_SuperadminsNeverChange ==
    LET initial == {u.email : u \in {v \in Range(<<RootUser, OldUser>>) :
                                        v.adminRole = "superadmin"}}
    IN  /\ {u.email : u \in {v \in Range(users) : v.adminRole = "superadmin"}} = initial
        /\ \A e \in initial :
              /\ Cardinality({i \in 1..Len(users) : users[i].email = e}) = 1
              /\ \A u \in Stored(e) : u.adminRole = "superadmin"

(* C10 witness: an admin asked to delete the superadmin and was refused    *)
(* by the handler, after the other account had been promoted.              *)
C10_Witness ==
    /\ reqs["c2"].kind = "deleteUser" /\ reqs["c2"].pc = "done"
    /\ reqs["c2"].status = 403 /\ reqs["c2"].param = "root@lu"
    /\ reqs["c2"].user.adminRole = "admin"

----------------------------------------------------------------------------
(* C5 as stated: GET /notices lists every notice for an admin or           *)
(* superadmin and otherwise exactly the notices whose targetAudience is    *)
(* "All" or the userType of the caller's stored record, or whose           *)
(* department is the caller's.                                             *)
C5_NoticeListing ==
    [][\A s \in Clients :
        Continues(s) /\ reqs[s].kind = "getNotices" =>
            LET listed == Range(reqs'[s].result)
            IN  IF reqs[s].user.adminRole \in {"admin", "superadmin"}
                THEN listed = Range(notices)
                ELSE \E caller \in Stored(reqs[s].user.email) :
                        listed = {n \in Range(notices) :
                                    \/ n.targetAudience \in {"All", caller.userType}
                                    \/ n.department = caller.department}
      ]_vars

----------------------------------------------------------------------------
(* C6: GET /notices by a caller who is neither admin nor superadmin lists  *)
(* every stored notice whose targetAudience is "All".                      *)
C6_AllAudienceListed ==
    [][\A s \in Clients :
        Continues(s) /\ reqs[s].kind = "getNotices"
            /\ reqs[s].user.adminRole \notin {"admin", "superadmin"} =>
            /\ reqs'[s].pc = "done" /\ reqs'[s].status = 200
            /\ \A n \in Range(notices) :
                  n.targetAudience = "All" => n \in Range(reqs'[s].result)
      ]_vars

(* C6 witness: a member was listed an "All" notice of another department *)
C6_Witness ==
    /\ reqs["c2"].kind = "getNotices" /\ reqs["c2"].pc = "done"
    /\ reqs["c2"].user.adminRole = "user"
    /\ \E n \in Range(reqs["c2"].result) :
          n.targetAudience = "All" /\ n.department # reqs["c2"].user.department

----------------------------------------------------------------------------
(* C7: for a caller who is neither admin nor superadmin, a notice whose    *)
(* targetAudience is neither "All" nor the caller's userType is listed by  *)
(* GET /notices exactly when its department is the caller's department.    *)
C7_DepartmentClause ==
    [][\A s \in Clients :
        Continues(s) /\ reqs[s].kind = "getNotices"
            /\ reqs[s].user.adminRole \notin {"admin", "superadmin"} =>
            \E caller \in Stored(reqs[s].user.email) :
                \A n \in Range(notices) :
                    n.targetAudience \notin {"All", caller.userType} =>
                        (n \in Range(reqs'[s].result) <=> n.department = caller.department)
      ]_vars

(* C7 witness: a student of CSE was listed a faculty notice of CSE *)
C7_Witness ==
    /\ reqs["c2"].kind = "getNotices" /\ reqs["c2"].pc = "done"
    /\ reqs["c2"].user.adminRole = "user" /\ reqs["c2"].user.department = "CSE"
    /\ \E caller \in Stored(reqs["c2"].user.email) : caller.userType = "student"
    /\ \E n \in Range(reqs["c2"].result) :
          n.targetAudience = "faculty" /\ n.department = "CSE"

----------------------------------------------------------------------------
(* C11: on GET /users/:email and PATCH /users/:email a caller resolved     *)
(* with role user whose email is not exactly the :email parameter (a       *)
(* difference of case is a difference) is answered 403 at once, no record  *)
(* being returned or written; a caller whose email is exactly the          *)
(* parameter, and every admin or superadmin, is not refused.               *)
C11_OwnershipCheck ==
    [][\A s \in Clients :
        Arrives(s) /\ reqs'[s].kind \in {"getUser", "patchUser"}
            /\ reqs'[s].user.email # NULL =>
            LET r == reqs'[s]
                refused == r.pc = "done" /\ r.status = 403
            IN  /\ StorageUnchanged
                /\ r.user.adminRole = "user" /\ r.param # r.user.email
                      => refused /\ r.result = <<>>
                /\ r.param = r.user.email \/ r.user.adminRole \in {"admin", "superadmin"}
                      => ~refused
      ]_vars

(* C11 witness: the account old@lu asked for the registered account OLD@lu *)
(* and was refused, while the superadmin's read of old@lu went on.         *)
C11_Witness ==
    /\ reqs["c2"].kind = "getUser" /\ reqs["c2"].pc = "done" /\ reqs["c2"].status = 403
    /\ reqs["c2"].user.email = "old@lu" /\ reqs["c2"].user.adminRole = "user"
    /\ reqs["c2"].param = "OLD@lu" /\ Stored("OLD@lu") # {}
    /\ reqs["c1"].kind = "getUser" /\ reqs["c1"].pc = "find"
    /\ reqs["c1"].user.adminRole = "superadmin" /\ reqs["c1"].param = "old@lu"

----------------------------------------------------------------------------
(* C12 as stated: in every reachable state no two User records have the    *)
(* same email, concurrent signups included.                                *)
C12_EmailUnique ==
    \A i, j \in 1..Len(users) : users[i].email = users[j].email => i = j

----------------------------------------------------------------------------
(* C13 as stated: while every storage operation succeeds, no request is    *)
(* answered 500.                                                           *)
C13_No500WithoutFailure ==
    \A s \in Clients : reqs[s].pc = "done" => reqs[s].status # 500

----------------------------------------------------------------------------
(* C14 as stated: GET /users returns User records only to a caller whose   *)
(* token cookie resolves to an account with role admin or superadmin.      *)
C14_UsersListedToAdminsOnly ==
    [][\A s \in Clients :
        Responds(s) /\ reqs'[s].kind = "getUsers" /\ reqs'[s].result # <<>> =>
            /\ Unexpired(reqs'[s].cookie)
            /\ \E u \in Stored(reqs'[s].cookie.email) : RoleOf(u) \in {"admin", "superadmin"}
      ]_vars

----------------------------------------------------------------------------
(* C15 as stated: the Set-Cookie header of every successful POST /login    *)
(* marks the cookie token HttpOnly, as the header with which POST /logout  *)
(* clears it does.                                                         *)
C15_LoginCookieHttpOnly ==
    \A s \in Clients :
        reqs[s].kind = "login" /\ reqs[s].pc = "done" /\ reqs[s].status = 200 =>
            /\ Len(reqs[s].result) = 1
            /\ reqs[s].result[1].name = "token"
            /\ reqs[s].result[1].httpOnly
            /\ reqs[s].result[1].httpOnly = ClearCookieOptions.httpOnly

----------------------------------------------------------------------------
(* C16: a login issues a token that expires one hour (two ticks of 30      *)
(* minutes) later.  A protected request carrying a server-signed token     *)
(* after its expiry is answered 403 by verifyToken with nothing read or    *)
(* written, also when the token's account no longer exists (which would    *)
(* be 404); before its expiry verifyToken does not answer it 403.          *)
C16_ExpiryAfterOneHour ==
    [][\A s \in Clients :
        /\ jar'[s] # jar[s] /\ jar'[s].present => jar'[s].exp = now + 2
        /\ Arrives(s) /\ reqs'[s].kind \in ProtectedKinds /\ reqs'[s].cookie.signed =>
              LET r == reqs'[s]
                  rejected == r.pc = "done" /\ r.status = 403 /\ r.user = NoUser
              IN  /\ now > r.cookie.exp => rejected /\ StorageUnchanged
                  /\ now < r.cookie.exp => ~rejected
      ]_vars

(* C16 witness: a token issued at time 0 was answered 403 at time 3, its   *)
(* account having been deleted in between.                                 *)
C16_Witness ==
    /\ reqs["c2"].kind = "getUser" /\ reqs["c2"].pc = "done" /\ reqs["c2"].status = 403
    /\ reqs["c2"].user = NoUser
    /\ reqs["c2"].cookie.signed /\ reqs["c2"].cookie.exp = 2 /\ now = 3
    /\ Stored(reqs["c2"].cookie.email) = {}

----------------------------------------------------------------------------
(* C17: when the caller of GET /notices is neither admin nor superadmin    *)
(* and its record has no department, every notice listed has the           *)
(* targetAudience "All" or the caller's userType: none is listed on        *)
(* account of its department, the notices being those POST /notices and    *)
(* PUT /notices/:id store.                                                 *)
C17_NoDepartmentNoDepartmentMatch ==
    [][\A s \in Clients :
        Continues(s) /\ reqs[s].kind = "getNotices"
            /\ reqs[s].user.adminRole \notin {"admin", "superadmin"}
            /\ reqs[s].user.department = NULL =>
            /\ reqs'[s].pc = "done" /\ reqs'[s].status = 200
            /\ \A n \in Range(notices) : Truthy(n.department)
            /\ \E caller \in Stored(reqs[s].user.email) :
                  \A n \in Range(reqs'[s].result) :
                      n.targetAudience \in {"All", caller.userType}
      ]_vars

(* C17 witness: a member without department was listed nothing while a    *)
(* faculty notice of a department was stored, a notice without department  *)
(* having been refused.                                                    *)
C17_Witness ==
    /\ reqs["c2"].kind = "getNotices" /\ reqs["c2"].pc = "done"
    /\ reqs["c2"].user.adminRole = "user" /\ reqs["c2"].user.department = NULL
    /\ reqs["c2"].result = <<>>
    /\ \E n \in Range(notices) : n.targetAudience = "faculty"
    /\ reqs["c1"].kind = "putNotice" /\ reqs["c1"].pc = "done" /\ reqs["c1"].status = 400

----------------------------------------------------------------------------
(* C18: the insert of POST /signup appends one record whose role is user   *)
(* whatever the body says; the update of PATCH /users/:email changes at    *)
(* most the fullName, designation and image of one record, whose email is  *)
(* exactly the parameter, and nothing else in Users; and the role of a     *)
(* stored record changes only in a step of a promotion or demotion         *)
(* resolved as superadmin.                                                 *)
C18_RoleChangesOnlyByPromotion ==
    [][/\ \A s \in Clients :
            /\ Continues(s) /\ reqs[s].kind = "signup" =>
                  /\ Len(users') = Len(users) + 1
                  /\ SubSeq(users', 1, Len(users)) = users
                  /\ users'[Len(users')].adminRole = "user"
                  /\ users'[Len(users')].email = reqs[s].body.email
            /\ Continues(s) /\ reqs[s].kind = "patchUser" =>
                  /\ Len(users') = Len(users)
                  /\ \A i \in 1..Len(users) :
                        users'[i] # users[i] =>
                            /\ users[i].email = reqs[s].param
                            /\ \A j \in 1..Len(users) : users'[j] # users[j] => j = i
                            /\ users'[i].fullName = reqs[s].body.fullName
                            /\ users'[i].designation = reqs[s].body.designation
                            /\ ~Truthy(reqs[s].body.image) => users'[i].image = users[i].image
                            /\ [users'[i] EXCEPT !.fullName = users[i].fullName,
                                                 !.designation = users[i].designation,
                                                 !.image = users[i].image] = users[i]
       /\ /\ Len(users') = Len(users)
          /\ \E i \in 1..Len(users) : users'[i].adminRole # users[i].adminRole
          => \E s \in Clients :
                /\ Continues(s) /\ reqs[s].kind \in {"promote", "demote"}
                /\ reqs[s].user.adminRole = "superadmin"
      ]_vars

(* C18 witness: a profile update changed the designation of old@lu, a     *)
(* record registered with role user, and left the superadmin's record      *)
(* alone, while a signup whose body asks for the role superadmin is about  *)
(* to insert.                                                              *)
C18_Witness ==
    /\ reqs["c2"].kind = "patchUser" /\ reqs["c2"].pc = "done" /\ reqs["c2"].status = 200
    /\ reqs["c2"].param = "old@lu"
    /\ \E u \in Stored("old@lu") : u.designation = "D1" /\ u.adminRole = "user"
    /\ Stored("root@lu") = {RootUser}
    /\ reqs["c1"].kind = "signup" /\ reqs["c1"].pc = "insert"
    /\ reqs["c1"].body.adminRole = "superadmin"

----------------------------------------------------------------------------
(* C19 as stated: the lookup of GET /users/:email for a caller who is      *)
(* neither admin nor superadmin answers 404, or 200 with a record whose    *)
(* email is identical to the caller's.                                     *)
C19_OnlyOwnRecordReturned ==
    [][\A s \in Clients :
        Continues(s) /\ reqs[s].kind = "getUser"
            /\ reqs[s].user.adminRole \notin {"admin", "superadmin"} =>
            /\ reqs'[s].pc = "done"
            /\ \/ reqs'[s].status = 404
               \/ /\ reqs'[s].status = 200
                  /\ Len(reqs'[s].result) = 1
                  /\ reqs'[s].result[1].email = reqs[s].user.email
      ]_vars

----------------------------------------------------------------------------
(* C20 as stated: once verifyToken has answered a server-signed token 404  *)
(* (its account was deleted after the login), the next protected request   *)
(* carrying that token is answered 404 as well, or 403 once the token has  *)
(* expired, even when an account was registered with the token's email in  *)
(* the meantime.                                                           *)
C20_DeletedCredentialNeverResolves ==
    [][\A s \in Clients :
        /\ reqs[s].kind \in ProtectedKinds /\ reqs[s].pc = "done"
        /\ reqs[s].status = 404 /\ reqs[s].user = NoUser /\ reqs[s].cookie.signed
        /\ Arrives(s) /\ reqs'[s].kind \in ProtectedKinds
        /\ reqs'[s].cookie = reqs[s].cookie
        => /\ reqs'[s].pc = "done" /\ reqs'[s].user = NoUser
           /\ reqs'[s].status = IF Unexpired(reqs'[s].cookie) THEN 404 ELSE 403
      ]_vars

(* C20 amended: a server-signed token never resolves to a record with an   *)
(* email other than its own; once verifyToken has answered it 404, the     *)
(* next protected request carrying it is answered 404 (403 once it has     *)
(* expired) if no User record has the token's email at that time, and is   *)
(* resolved to the record registered with that email otherwise.            *)
C20_Deleted404WhileEmailUnregistered ==
    [][\A s \in Clients :
        Arrives(s) /\ reqs'[s].kind \in ProtectedKinds /\ reqs'[s].cookie.signed =>
            LET r == reqs'[s]
                answered404 ==
                    /\ reqs[s].kind \in ProtectedKinds /\ reqs[s].pc = "done"
                    /\ reqs[s].status = 404 /\ reqs[s].user = NoUser
                    /\ reqs[s].cookie = r.cookie
            IN  /\ r.user.email # NULL => r.user.email = r.cookie.email
                /\ answered404 /\ Stored(r.cookie.email) = {} =>
                      /\ r.pc = "done" /\ r.user = NoUser
                      /\ r.status = IF Unexpired(r.cookie) THEN 404 ELSE 403
                /\ answered404 /\ Stored(r.cookie.email) # {} /\ Unexpired(r.cookie) =>
                      /\ r.user.email = r.cookie.email
                      /\ \E u \in Stored(r.cookie.email) : r.user.adminRole = RoleOf(u)
      ]_vars

(* C20 witness: the token of the deleted account old@lu, answered 404      *)
(* before, is answered 404 again after the account OLD@lu was registered.  *)
C20_Witness ==
    /\ reqs["c2"].kind = "getUser" /\ reqs["c2"].pc = "done" /\ reqs["c2"].status = 404
    /\ reqs["c2"].user = NoUser /\ Unexpired(reqs["c2"].cookie)
    /\ reqs["c2"].cookie.email = "old@lu"
    /\ Stored("old@lu") = {} /\ Stored("OLD@lu") # {}

----------------------------------------------------------------------------
(* C21 as stated: the update of PATCH /users/:email, reached by an         *)
(* authorized caller with fullName and designation present, answers 404    *)
(* exactly when no User record has the parameter's email and 200 when one  *)
(* has, also when the submitted values are the stored ones.                *)
C21_Patch404OnlyWhenAbsent ==
    [][\A s \in Clients :
        Continues(s) /\ reqs[s].kind = "patchUser" =>
            /\ reqs'[s].pc = "done"
            /\ reqs'[s].status = IF Stored(reqs[s].param) = {} THEN 404 ELSE 200
      ]_vars

====
